---- MODULE Spec2Model ----
(***************************************************************************)
(* Measurement core of the QMC5883 magnetometer driver                      *)
(* (qmc5883_core.c, qmc5883.h, qmc5883_i2c.c).                              *)
(*                                                                         *)
(* The device is one qmc5883_data instance: its mutex, the two control      *)
(* registers seen through the regmap, and the scan buffer.  Callers are     *)
(* kernel threads entering the driver through probe/remove, the iio         *)
(* read_raw/write_raw accessors, the trigger handler and the PM callbacks.  *)
(* Each thread steps through the statements of the function it is in; one  *)
(* step holds at most one access to shared state (the mutex, a regmap       *)
(* call, the scan buffer, the host's registration state).                   *)
(***************************************************************************)
EXTENDS Integers, Sequences, FiniteSets, TLC

(* ------------------------------------------------------------------ *)
(* Bounds of the model                                                 *)
(* ------------------------------------------------------------------ *)

\* Number of threads that may be inside the driver at once (SpecConc).
NumThreads == 2

(* ------------------------------------------------------------------ *)
(* Constants of the driver                                             *)
(* ------------------------------------------------------------------ *)

QMC5883_DATA_READY == 1
QMC5883_MODE_STANDBY == 0
QMC5883_MODE_CONTINUOUS == 1
QMC5883_MODE_MASK == 3
QMC5883_RATE_OFFSET == 2
QMC5883_RATE_DEFAULT == 0
QMC5883_RATE_MASK == 12
QMC5883_RANGE_GAIN_OFFSET == 4
QMC5883_RANGE_GAIN_MASK == 48
QMC5883_OVERSAMPLING_OFFSET == 6

\* int tries = 150 in qmc5883_wait_measurement
WaitTries == 150

\* errno values and iio return formats used by the core
EIO == 5
ENXIO == 6
ENOMEM == 12
EINVAL == 22
IIO_VAL_INT == 1
IIO_VAL_INT_PLUS_MICRO == 2
IRQ_HANDLED == 1

\* qmc5883_regval_to_samp_freq[][2], indexed from 0 as in the source
qmc5883_regval_to_samp_freq ==
    [i \in 0..3 |-> CASE i = 0 -> <<10, 0>>
                      [] i = 1 -> <<50, 0>>
                      [] i = 2 -> <<100, 0>>
                      [] i = 3 -> <<200, 0>>]
n_regval_to_samp_freq == 4

\* qmc5883_regval_to_oversampling_ratio[][2]
qmc5883_regval_to_oversampling_ratio ==
    [i \in 0..3 |-> CASE i = 0 -> <<512, 0>>
                      [] i = 1 -> <<256, 0>>
                      [] i = 2 -> <<128, 0>>
                      [] i = 3 -> <<64, 0>>]
n_regval_to_oversampling_ratio == 4

\* qmc5883_regval_to_full_scale[]
qmc5883_regval_to_full_scale == [i \in 0..1 |-> IF i = 0 THEN 2 ELSE 8]
n_regval_to_full_scale == 2

(* ------------------------------------------------------------------ *)
(* The environment: what the regmap, the sensor and the callers supply *)
(* ------------------------------------------------------------------ *)

\* Negative returns of a failed regmap transaction (regmap-i2c hands back
\* the adapter's errno: -EIO for a short transfer, -ENXIO for a missing ack).
IoErrs == {-EIO, -ENXIO}

\* Contents of the status register a poll may read: bit0 data ready,
\* bit1 overflow, bit2 data skipped.
StatusVals == {0, 1, 2, 3}

\* Contents of the six data registers a bulk read may return
\* (X low, X high, Y low, Y high, Z low, Z high).
DataFrames == { <<0, 0, 255, 127, 0, 128>>, <<255, 255, 52, 18, 1, 0>> }
ZeroFrame == <<0, 0, 0, 0, 0, 0>>
NoFrame == <<>>

\* (val, val2) arguments a caller passes to write_raw
WriteVals == { <<10, 0>>, <<50, 0>>, <<100, 0>>, <<200, 0>>,
               <<0, 0>>, <<100, 500000>>, <<0, 10>> }

\* What a read beyond the end of a lookup table may yield.
OobInts == {0, 512}

(* ------------------------------------------------------------------ *)
(* Pure helpers                                                        *)
(* ------------------------------------------------------------------ *)

RECURSIVE BitAnd(_, _)
BitAnd(a, b) ==
    IF a = 0 \/ b = 0 THEN 0
    ELSE (a % 2) * (b % 2) + 2 * BitAnd(a \div 2, b \div 2)

RECURSIVE BitOr(_, _)
BitOr(a, b) ==
    IF a = 0 THEN b
    ELSE IF b = 0 THEN a
    ELSE (IF (a % 2) + (b % 2) > 0 THEN 1 ELSE 0) + 2 * BitOr(a \div 2, b \div 2)

\* ~mask on an 8-bit register value
BitNot8(a) == 255 - a

RECURSIVE Pow2(_)
Pow2(n) == IF n = 0 THEN 1 ELSE 2 * Pow2(n - 1)

\* the new register content regmap_update_bits computes: only the bits of
\* mask are taken from val
regmap_update_bits_WholeRegister(orig, mask, val) == val

regmap_update_bits(orig, mask, val) ==
    BitOr(BitAnd(orig, BitNot8(mask)), BitAnd(val, mask))

\* x >> n on an unsigned value
ShiftRight(x, n) == x \div Pow2(n)

\* x << n
ShiftLeft_NoShift(x, n) == x

ShiftLeft(x, n) == x * Pow2(n)

\* le16_to_cpu of the i-th element of a bulk-read buffer
le16_to_cpu(frame, i) == frame[2 * i + 1] + 256 * frame[2 * i + 2]

\* sign_extend32(value, index): bit `index` is the sign bit
sign_extend32_NoExtend(value, index) == value % Pow2(index + 1)

sign_extend32(value, index) ==
    LET m == value % Pow2(index + 1)
    IN  IF m >= Pow2(index) THEN m - Pow2(index + 1) ELSE m

\* val & QMC5883_DATA_READY
DataReady(status) == BitAnd(status, QMC5883_DATA_READY) # 0

\* the loop test of while (tries-- > 0), on the value before the decrement
LoopTest_OffByOne(tries) == tries > 1

LoopTest(tries) == tries > 0

\* the test after the poll loop: tries < 0 means the loop ran out
WaitResult_OffByOne(tries) == IF tries <= 0 THEN -EIO ELSE 0

WaitResult(tries) == IF tries < 0 THEN -EIO ELSE 0

\* qmc5883_get_samp_freq_index: linear search from index i
RECURSIVE SampFreqSearch_IntOnly(_, _, _)
SampFreqSearch_IntOnly(i, val, val2) ==
    IF i >= n_regval_to_samp_freq THEN -EINVAL
    ELSE IF val = qmc5883_regval_to_samp_freq[i][1]
         THEN i
         ELSE SampFreqSearch_IntOnly(i + 1, val, val2)

RECURSIVE SampFreqSearch(_, _, _)
SampFreqSearch(i, val, val2) ==
    IF i >= n_regval_to_samp_freq THEN -EINVAL
    ELSE IF val = qmc5883_regval_to_samp_freq[i][1]
            /\ val2 = qmc5883_regval_to_samp_freq[i][2]
         THEN i
         ELSE SampFreqSearch(i + 1, val, val2)

qmc5883_get_samp_freq_index(val, val2) == SampFreqSearch(0, val, val2)

(* ------------------------------------------------------------------ *)
(* State                                                               *)
(* ------------------------------------------------------------------ *)

VARIABLES
    th,          \* per thread: position and locals of the call it is in
    lock,        \* data->lock: the owning thread, 0 when free
    ctrl1,       \* QMC5883_CONTROL_REG_1 as seen through the regmap
    ctrl2,       \* QMC5883_CONTROL_REG_2
    scan,        \* data->scan.chans
    sink,        \* the frames the current trigger event handed to the iio buffers
    dev,         \* driver binding: unbound, probing, bound, removing, removed,
                 \* detached (the i2c remove callback returned), failed
    buffer,      \* iio_triggered_buffer_setup done and not cleaned up
    registered,  \* iio_device_register done and not unregistered
    trigBusy,    \* a trigger event is dispatched and not yet notified done
    suspended,   \* the PM core has suspended the device
    acks,        \* iio_trigger_notify_done calls of the current trigger event
    lastRate     \* rate index the last successful qmc5883_set_samp_freq wrote for
                 \* write_raw, -1 if none or if the probe wrote the default since

vars == <<th, lock, ctrl1, ctrl2, scan, sink, dev, buffer, registered,
          trigBusy, suspended, acks, lastRate>>

Threads == 1..NumThreads
NoOwner == 0

IdleThread ==
    [pc |-> "idle", op |-> "none", mask |-> "none", arg |-> 0,
     val |-> 0, val2 |-> 0, tries |-> 0, ret |-> 0, err |-> 0,
     values |-> NoFrame, polls |-> 0, readyAt |-> 0,
     waitEnv |-> "none", bulkEnv |-> "none"]

Set(t, r) == th' = [th EXCEPT ![t] = r]

HostUnchanged == UNCHANGED <<dev, buffer, registered, suspended>>
TrigUnchanged == UNCHANGED <<trigBusy, acks, sink>>
RegsUnchanged == UNCHANGED <<ctrl1, ctrl2, lastRate>>

InitCommon ==
    /\ th = [t \in Threads |-> IdleThread]
    /\ lock = NoOwner
    /\ ctrl2 \in {0, 65}
    /\ scan = ZeroFrame
    /\ sink = <<>>
    /\ dev = "unbound"
    /\ buffer = FALSE
    /\ registered = FALSE
    /\ trigBusy = FALSE
    /\ suspended = FALSE
    /\ acks = 0
    /\ lastRate = -1

(* ------------------------------------------------------------------ *)
(* mutex_lock / mutex_unlock                                           *)
(* ------------------------------------------------------------------ *)

\* mutex_lock returns once the mutex is free
mutex_free(l) == l = NoOwner

(* ------------------------------------------------------------------ *)
(* qmc5883_wait_measurement                                            *)
(* ------------------------------------------------------------------ *)

\* one pass of while (tries-- > 0) whose test succeeds: the status register
\* is read; a failed read returns its error, a set data-ready bit leaves the
\* loop, anything else sleeps and loops again
WmPoll(t) ==
    /\ th[t].pc = "wm_poll"
    /\ LoopTest(th[t].tries)
    /\ LET r == [th[t] EXCEPT !.tries = @ - 1, !.polls = @ + 1]
       IN  \/ \E e \in IoErrs :
                Set(t, [r EXCEPT !.ret = e, !.pc = "wm_ret",
                                 !.waitEnv = IF @ = "ready" THEN @ ELSE "fail"])
           \/ \E v \in StatusVals :
                IF DataReady(v)
                THEN Set(t, [r EXCEPT !.ret = WaitResult(r.tries),
                                      !.pc = "wm_ret",
                                      !.readyAt = IF @ = 0 THEN r.polls ELSE @,
                                      !.waitEnv = "ready"])
                ELSE Set(t, [r EXCEPT !.waitEnv = IF @ \in {"ready", "fail"}
                                                  THEN @ ELSE "notready"])
    /\ UNCHANGED <<lock, scan>>
    /\ RegsUnchanged /\ HostUnchanged /\ TrigUnchanged

\* the pass whose test fails: tries goes below zero and the loop ends
WmExhaust(t) ==
    /\ th[t].pc = "wm_poll"
    /\ ~LoopTest(th[t].tries)
    /\ LET r == [th[t] EXCEPT !.tries = @ - 1]
       IN  Set(t, [r EXCEPT !.ret = WaitResult(r.tries), !.pc = "wm_ret"])
    /\ UNCHANGED <<lock, scan>>
    /\ RegsUnchanged /\ HostUnchanged /\ TrigUnchanged

(* ------------------------------------------------------------------ *)
(* qmc5883_read_measurement (read_raw, IIO_CHAN_INFO_RAW)              *)
(* ------------------------------------------------------------------ *)

\* read_raw called with mask IIO_CHAN_INFO_RAW on channel idx
CallReadAxis(t, idx) ==
    /\ th[t].pc = "idle"
    /\ registered
    /\ Set(t, [IdleThread EXCEPT !.pc = "rm_lock", !.op = "read_raw",
                                 !.mask = "RAW", !.arg = idx])
    /\ UNCHANGED <<lock, scan>>
    /\ RegsUnchanged /\ HostUnchanged /\ TrigUnchanged

\* mutex_lock(&data->lock), then entry of qmc5883_wait_measurement
RmLock(t) ==
    /\ th[t].pc = "rm_lock"
    /\ mutex_free(lock)
    /\ lock' = t
    /\ Set(t, [th[t] EXCEPT !.pc = "wm_poll", !.tries = WaitTries])
    /\ UNCHANGED scan
    /\ RegsUnchanged /\ HostUnchanged /\ TrigUnchanged

\* if (ret < 0) { mutex_unlock; return ret; }
RmWaitFailed_KeepsGuard(t) ==
    /\ th[t].pc = "wm_ret"
    /\ th[t].op = "read_raw"
    /\ th[t].ret < 0
    /\ Set(t, [th[t] EXCEPT !.pc = "done", !.tries = 0, !.polls = 0,
                            !.readyAt = 0])
    /\ UNCHANGED <<lock, scan>>
    /\ RegsUnchanged /\ HostUnchanged /\ TrigUnchanged

RmWaitFailed(t) ==
    /\ th[t].pc = "wm_ret"
    /\ th[t].op = "read_raw"
    /\ th[t].ret < 0
    /\ lock' = NoOwner
    /\ Set(t, [th[t] EXCEPT !.pc = "done", !.tries = 0, !.polls = 0,
                            !.readyAt = 0])
    /\ UNCHANGED scan
    /\ RegsUnchanged /\ HostUnchanged /\ TrigUnchanged

\* regmap_bulk_read of the six data registers
RmBulkRead_IntoScan(t) ==
    /\ th[t].pc = "wm_ret"
    /\ th[t].op = "read_raw"
    /\ th[t].ret >= 0
    /\ LET r == [th[t] EXCEPT !.pc = "rm_unlock", !.tries = 0, !.polls = 0,
                              !.readyAt = 0]
       IN  \/ \E e \in IoErrs :
                /\ Set(t, [r EXCEPT !.ret = e, !.bulkEnv = "fail"])
                /\ UNCHANGED scan
           \/ \E f \in DataFrames :
                /\ Set(t, [r EXCEPT !.ret = 0, !.values = f, !.bulkEnv = "ok"])
                /\ scan' = f
    /\ UNCHANGED lock
    /\ RegsUnchanged /\ HostUnchanged /\ TrigUnchanged

\* regmap_bulk_read of the six data registers into the local values[]
RmBulkRead(t) ==
    /\ th[t].pc = "wm_ret"
    /\ th[t].op = "read_raw"
    /\ th[t].ret >= 0
    /\ LET r == [th[t] EXCEPT !.pc = "rm_unlock", !.tries = 0, !.polls = 0,
                              !.readyAt = 0]
       IN  \/ \E e \in IoErrs :
                Set(t, [r EXCEPT !.ret = e, !.bulkEnv = "fail"])
           \/ \E f \in DataFrames :
                Set(t, [r EXCEPT !.ret = 0, !.values = f, !.bulkEnv = "ok"])
    /\ UNCHANGED <<lock, scan>>
    /\ RegsUnchanged /\ HostUnchanged /\ TrigUnchanged

\* mutex_unlock, then the error return or the decoding of values[idx]
RmUnlock(t) ==
    /\ th[t].pc = "rm_unlock"
    /\ lock' = NoOwner
    /\ IF th[t].ret < 0
       THEN Set(t, [th[t] EXCEPT !.pc = "done"])
       ELSE Set(t, [th[t] EXCEPT
                      !.pc = "done",
                      !.val = sign_extend32(le16_to_cpu(th[t].values, th[t].arg), 15),
                      !.values = NoFrame,
                      !.ret = IIO_VAL_INT])
    /\ UNCHANGED scan
    /\ RegsUnchanged /\ HostUnchanged /\ TrigUnchanged

(* ------------------------------------------------------------------ *)
(* qmc5883_trigger_handler                                             *)
(* ------------------------------------------------------------------ *)

\* the host dispatches a trigger event to the poll function; it dispatches
\* no further event until iio_trigger_notify_done
TriggerEvent(t) ==
    /\ th[t].pc = "idle"
    /\ registered /\ buffer
    /\ ~trigBusy
    /\ trigBusy' = TRUE
    /\ acks' = 0
    /\ sink' = <<>>
    /\ Set(t, [IdleThread EXCEPT !.pc = "th_lock", !.op = "trigger"])
    /\ UNCHANGED <<lock, scan>>
    /\ RegsUnchanged /\ HostUnchanged

ThLock(t) ==
    /\ th[t].pc = "th_lock"
    /\ mutex_free(lock)
    /\ lock' = t
    /\ Set(t, [th[t] EXCEPT !.pc = "wm_poll", !.tries = WaitTries])
    /\ UNCHANGED scan
    /\ RegsUnchanged /\ HostUnchanged /\ TrigUnchanged

\* if (ret < 0) { mutex_unlock; goto done; }
ThWaitFailed_NoNotify(t) ==
    /\ th[t].pc = "wm_ret"
    /\ th[t].op = "trigger"
    /\ th[t].ret < 0
    /\ lock' = NoOwner
    /\ Set(t, [th[t] EXCEPT !.pc = "done", !.ret = IRQ_HANDLED, !.tries = 0,
                            !.polls = 0, !.readyAt = 0])
    /\ UNCHANGED scan
    /\ RegsUnchanged /\ HostUnchanged /\ TrigUnchanged

ThWaitFailed(t) ==
    /\ th[t].pc = "wm_ret"
    /\ th[t].op = "trigger"
    /\ th[t].ret < 0
    /\ lock' = NoOwner
    /\ Set(t, [th[t] EXCEPT !.pc = "th_done", !.tries = 0, !.polls = 0,
                            !.readyAt = 0])
    /\ UNCHANGED scan
    /\ RegsUnchanged /\ HostUnchanged /\ TrigUnchanged

\* regmap_bulk_read straight into data->scan.chans
ThBulkRead(t) ==
    /\ th[t].pc = "wm_ret"
    /\ th[t].op = "trigger"
    /\ th[t].ret >= 0
    /\ LET r == [th[t] EXCEPT !.pc = "th_unlock", !.tries = 0, !.polls = 0,
                              !.readyAt = 0]
       IN  \/ \E e \in IoErrs :
                /\ Set(t, [r EXCEPT !.ret = e, !.bulkEnv = "fail"])
                /\ UNCHANGED scan
           \/ \E f \in DataFrames :
                /\ Set(t, [r EXCEPT !.ret = 0, !.values = f, !.bulkEnv = "ok"])
                /\ scan' = f
    /\ UNCHANGED lock
    /\ RegsUnchanged /\ HostUnchanged /\ TrigUnchanged

\* mutex_unlock; if (ret < 0) goto done;
ThUnlock(t) ==
    /\ th[t].pc = "th_unlock"
    /\ lock' = NoOwner
    /\ Set(t, [th[t] EXCEPT !.pc = IF th[t].ret < 0 THEN "th_done" ELSE "th_push"])
    /\ UNCHANGED scan
    /\ RegsUnchanged /\ HostUnchanged /\ TrigUnchanged

\* iio_push_to_buffers_with_timestamp(indio_dev, &data->scan, ...)
ThPush(t) ==
    /\ th[t].pc = "th_push"
    /\ sink' = Append(sink, scan)
    /\ Set(t, [th[t] EXCEPT !.pc = "th_done"])
    /\ UNCHANGED <<lock, scan, trigBusy, acks>>
    /\ RegsUnchanged /\ HostUnchanged

\* done: iio_trigger_notify_done(indio_dev->trig); return IRQ_HANDLED;
ThNotifyDone(t) ==
    /\ th[t].pc = "th_done"
    /\ acks' = acks + 1
    /\ trigBusy' = FALSE
    /\ Set(t, [th[t] EXCEPT !.pc = "done", !.ret = IRQ_HANDLED,
                            !.values = NoFrame])
    /\ UNCHANGED <<lock, scan, sink>>
    /\ RegsUnchanged /\ HostUnchanged

(* ------------------------------------------------------------------ *)
(* qmc5883_read_raw: scale, sampling frequency, oversampling ratio     *)
(* ------------------------------------------------------------------ *)

\* the element of a lookup table at index i; past the end of the table the
\* read yields whatever lies there
TableRead(table, n, i) == IF i < n THEN {table[i]} ELSE OobInts
TableRead2(table, n, i) == IF i < n THEN {table[i]} ELSE OobInts \X OobInts

\* case IIO_CHAN_INFO_SCALE: rval >>= QMC5883_RANGE_GAIN_OFFSET
ScaleIndex(rval) == ShiftRight(rval, QMC5883_RANGE_GAIN_OFFSET)

\* case IIO_CHAN_INFO_SAMP_FREQ: rval >>= QMC5883_RATE_OFFSET
SampFreqIndex(rval) == ShiftRight(rval, QMC5883_RATE_OFFSET)

\* case IIO_CHAN_INFO_OVERSAMPLING_RATIO: rval >>= QMC5883_OVERSAMPLING_OFFSET
OversamplingIndex(rval) == ShiftRight(rval, QMC5883_OVERSAMPLING_OFFSET)

ConfigMasks == {"SCALE", "SAMP_FREQ", "OVERSAMPLING_RATIO"}

\* read_raw called with one of the three configuration masks
CallReadConfig(t, mask) ==
    /\ th[t].pc = "idle"
    /\ registered
    /\ mask \in ConfigMasks
    /\ Set(t, [IdleThread EXCEPT !.pc = "rr_read", !.op = "read_raw", !.mask = mask])
    /\ UNCHANGED <<lock, scan>>
    /\ RegsUnchanged /\ HostUnchanged /\ TrigUnchanged

\* regmap_read(CONTROL_REG_1, &rval), the shift, the table lookup
RrRead(t) ==
    /\ th[t].pc = "rr_read"
    /\ LET r == [th[t] EXCEPT !.pc = "done"]
       IN  \/ \E e \in IoErrs : Set(t, [r EXCEPT !.ret = e])
           \/ /\ r.mask = "SCALE"
              /\ \E v \in TableRead(qmc5883_regval_to_full_scale,
                                    n_regval_to_full_scale, ScaleIndex(ctrl1)) :
                    Set(t, [r EXCEPT !.val = v, !.ret = IIO_VAL_INT])
           \/ /\ r.mask = "SAMP_FREQ"
              /\ \E v \in TableRead2(qmc5883_regval_to_samp_freq,
                                     n_regval_to_samp_freq, SampFreqIndex(ctrl1)) :
                    Set(t, [r EXCEPT !.val = v[1], !.val2 = v[2],
                                     !.ret = IIO_VAL_INT_PLUS_MICRO])
           \/ /\ r.mask = "OVERSAMPLING_RATIO"
              /\ \E v \in TableRead2(qmc5883_regval_to_oversampling_ratio,
                                     n_regval_to_oversampling_ratio,
                                     OversamplingIndex(ctrl1)) :
                    Set(t, [r EXCEPT !.val = v[1], !.val2 = v[2],
                                     !.ret = IIO_VAL_INT])
    /\ UNCHANGED <<lock, scan>>
    /\ RegsUnchanged /\ HostUnchanged /\ TrigUnchanged

\* read_raw with any other mask: the switch falls through, return ret (0)
CallReadOther(t) ==
    /\ th[t].pc = "idle"
    /\ registered
    /\ Set(t, [IdleThread EXCEPT !.pc = "done", !.op = "read_raw",
                                 !.mask = "OTHER", !.ret = 0])
    /\ UNCHANGED <<lock, scan>>
    /\ RegsUnchanged /\ HostUnchanged /\ TrigUnchanged

(* ------------------------------------------------------------------ *)
(* qmc5883_write_raw and qmc5883_set_samp_freq                         *)
(* ------------------------------------------------------------------ *)

\* (mask, val, val2) arguments a caller passes to write_raw
WriteInputs ==
    ({"SAMP_FREQ"} \X WriteVals)
    \cup { <<"SCALE", <<8, 0>> >>, <<"SCALE", <<10, 0>> >>,
           <<"OVERSAMPLING_RATIO", <<64, 0>> >>,
           <<"OTHER", <<0, 0>> >> }

\* write_raw: the index lookup for the sampling frequency, -EINVAL for a
\* value that is not in the table and for every other mask
CallWriteRaw_AnyMask(t, mask, val, val2) ==
    /\ th[t].pc = "idle"
    /\ registered
    /\ LET r == [IdleThread EXCEPT !.op = "write_raw", !.mask = mask,
                                   !.val = val, !.val2 = val2]
           rate == qmc5883_get_samp_freq_index(val, val2)
       IN  IF rate < 0
           THEN Set(t, [r EXCEPT !.pc = "done", !.ret = -EINVAL])
           ELSE Set(t, [r EXCEPT !.pc = "ss_lock", !.arg = rate])
    /\ UNCHANGED <<lock, scan>>
    /\ RegsUnchanged /\ HostUnchanged /\ TrigUnchanged

CallWriteRaw(t, mask, val, val2) ==
    /\ th[t].pc = "idle"
    /\ registered
    /\ LET r == [IdleThread EXCEPT !.op = "write_raw", !.mask = mask,
                                   !.val = val, !.val2 = val2]
           rate == qmc5883_get_samp_freq_index(val, val2)
       IN  IF mask = "SAMP_FREQ"
           THEN IF rate < 0
                THEN Set(t, [r EXCEPT !.pc = "done", !.ret = -EINVAL])
                ELSE Set(t, [r EXCEPT !.pc = "ss_lock", !.arg = rate])
           ELSE Set(t, [r EXCEPT !.pc = "done", !.ret = -EINVAL])
    /\ UNCHANGED <<lock, scan>>
    /\ RegsUnchanged /\ HostUnchanged /\ TrigUnchanged

\* qmc5883_set_samp_freq: mutex_lock
SsLock_NoWait(t) ==
    /\ th[t].pc = "ss_lock"
    /\ lock' = t
    /\ Set(t, [th[t] EXCEPT !.pc = "ss_update"])
    /\ UNCHANGED scan
    /\ RegsUnchanged /\ HostUnchanged /\ TrigUnchanged

SsLock(t) ==
    /\ th[t].pc = "ss_lock"
    /\ mutex_free(lock)
    /\ lock' = t
    /\ Set(t, [th[t] EXCEPT !.pc = "ss_update"])
    /\ UNCHANGED scan
    /\ RegsUnchanged /\ HostUnchanged /\ TrigUnchanged

\* regmap_update_bits(CONTROL_REG_1, QMC5883_RATE_MASK, rate << QMC5883_RATE_OFFSET)
SsUpdate(t) ==
    /\ th[t].pc = "ss_update"
    /\ \/ \E e \in IoErrs :
            /\ Set(t, [th[t] EXCEPT !.pc = "ss_unlock", !.ret = e])
            /\ UNCHANGED <<ctrl1, lastRate>>
       \/ /\ ctrl1' = regmap_update_bits(ctrl1, QMC5883_RATE_MASK,
                                         ShiftLeft(th[t].arg, QMC5883_RATE_OFFSET))
          /\ lastRate' = IF th[t].op = "write_raw" THEN th[t].arg ELSE -1
          /\ Set(t, [th[t] EXCEPT !.pc = "ss_unlock", !.ret = 0])
    /\ UNCHANGED <<lock, scan, ctrl2>>
    /\ HostUnchanged /\ TrigUnchanged

\* mutex_unlock; return ret.  Back in write_raw the value is returned; back
\* in qmc5883_init a negative value ends the probe, otherwise init goes on
SsUnlock(t) ==
    /\ th[t].pc = "ss_unlock"
    /\ lock' = NoOwner
    /\ IF th[t].op = "probe"
       THEN IF th[t].ret < 0
            THEN /\ Set(t, [th[t] EXCEPT !.pc = "done"])
                 /\ dev' = "failed"
            ELSE /\ Set(t, [th[t] EXCEPT !.pc = "init_ctrl2"])
                 /\ UNCHANGED dev
       ELSE /\ Set(t, [th[t] EXCEPT !.pc = "done"])
            /\ UNCHANGED dev
    /\ UNCHANGED <<scan, buffer, registered, suspended>>
    /\ RegsUnchanged /\ TrigUnchanged

(* ------------------------------------------------------------------ *)
(* qmc5883_set_mode, qmc5883_common_suspend, qmc5883_common_resume     *)
(* ------------------------------------------------------------------ *)

\* no PM callback is running
NoPmCall == \A u \in Threads : th[u].op \notin {"suspend", "resume"}

\* the PM core suspends a bound, running device
CallSuspend(t) ==
    /\ th[t].pc = "idle"
    /\ dev = "bound" /\ ~suspended /\ NoPmCall
    /\ Set(t, [IdleThread EXCEPT !.pc = "sm_read1", !.op = "suspend",
                                 !.arg = QMC5883_MODE_STANDBY])
    /\ UNCHANGED <<lock, scan>>
    /\ RegsUnchanged /\ HostUnchanged /\ TrigUnchanged

\* the PM core resumes a suspended device
CallResume(t) ==
    /\ th[t].pc = "idle"
    /\ dev = "bound" /\ suspended /\ NoPmCall
    /\ Set(t, [IdleThread EXCEPT !.pc = "sm_read1", !.op = "resume",
                                 !.arg = QMC5883_MODE_CONTINUOUS])
    /\ UNCHANGED <<lock, scan>>
    /\ RegsUnchanged /\ HostUnchanged /\ TrigUnchanged

\* ret2 = regmap_read(CONTROL_REG_1, &val) before the lock is taken; the
\* result is only logged
SmRead1(t) ==
    /\ th[t].pc = "sm_read1"
    /\ Set(t, [th[t] EXCEPT !.pc = "sm_lock"])
    /\ UNCHANGED <<lock, scan>>
    /\ RegsUnchanged /\ HostUnchanged /\ TrigUnchanged

\* mutex_lock(&data->lock)
SmLock_SkipIfSame(t) ==
    /\ th[t].pc = "sm_lock"
    /\ IF ctrl1 % 4 = th[t].arg
       THEN /\ Set(t, [th[t] EXCEPT !.pc = "sm_read2", !.ret = 0])
            /\ UNCHANGED lock
       ELSE /\ mutex_free(lock)
            /\ lock' = t
            /\ Set(t, [th[t] EXCEPT !.pc = "sm_update"])
    /\ UNCHANGED scan
    /\ RegsUnchanged /\ HostUnchanged /\ TrigUnchanged

SmLock(t) ==
    /\ th[t].pc = "sm_lock"
    /\ mutex_free(lock)
    /\ lock' = t
    /\ Set(t, [th[t] EXCEPT !.pc = "sm_update"])
    /\ UNCHANGED scan
    /\ RegsUnchanged /\ HostUnchanged /\ TrigUnchanged

\* regmap_update_bits(CONTROL_REG_1, QMC5883_MODE_MASK, operating_mode)
SmUpdate_ErrorSwallowed(t) ==
    /\ th[t].pc = "sm_update"
    /\ \/ /\ Set(t, [th[t] EXCEPT !.pc = "sm_unlock", !.ret = 0])
          /\ UNCHANGED ctrl1
       \/ /\ ctrl1' = regmap_update_bits(ctrl1, QMC5883_MODE_MASK, th[t].arg)
          /\ Set(t, [th[t] EXCEPT !.pc = "sm_unlock", !.ret = 0])
    /\ UNCHANGED <<lock, scan, ctrl2, lastRate>>
    /\ HostUnchanged /\ TrigUnchanged

SmUpdate(t) ==
    /\ th[t].pc = "sm_update"
    /\ \/ \E e \in IoErrs :
            /\ Set(t, [th[t] EXCEPT !.pc = "sm_unlock", !.ret = e])
            /\ UNCHANGED ctrl1
       \/ /\ ctrl1' = regmap_update_bits(ctrl1, QMC5883_MODE_MASK, th[t].arg)
          /\ Set(t, [th[t] EXCEPT !.pc = "sm_unlock", !.ret = 0])
    /\ UNCHANGED <<lock, scan, ctrl2, lastRate>>
    /\ HostUnchanged /\ TrigUnchanged

SmUnlock(t) ==
    /\ th[t].pc = "sm_unlock"
    /\ lock' = NoOwner
    /\ Set(t, [th[t] EXCEPT !.pc = "sm_read2"])
    /\ UNCHANGED scan
    /\ RegsUnchanged /\ HostUnchanged /\ TrigUnchanged

\* the second logging regmap_read after the unlock, then return ret to the
\* caller: suspend and resume hand it to the PM core; qmc5883_init hands it
\* to the probe, which stops on a negative value; the unwinding of the probe
\* and the remove drop it
SmRead2(t) ==
    /\ th[t].pc = "sm_read2"
    /\ CASE th[t].op = "suspend" ->
              /\ Set(t, [th[t] EXCEPT !.pc = "done"])
              /\ suspended' = (th[t].ret = 0)
              /\ UNCHANGED dev
         [] th[t].op = "resume" ->
              /\ Set(t, [th[t] EXCEPT !.pc = "done"])
              /\ suspended' = FALSE
              /\ UNCHANGED dev
         [] th[t].op = "probe" /\ th[t].arg = QMC5883_MODE_CONTINUOUS ->
              /\ IF th[t].ret < 0
                 THEN /\ Set(t, [th[t] EXCEPT !.pc = "done"])
                      /\ dev' = "failed"
                 ELSE /\ Set(t, [th[t] EXCEPT !.pc = "pb_buffer_setup"])
                      /\ UNCHANGED dev
              /\ UNCHANGED suspended
         [] th[t].op = "probe" /\ th[t].arg = QMC5883_MODE_STANDBY ->
              /\ Set(t, [th[t] EXCEPT !.pc = "done", !.ret = th[t].err])
              /\ dev' = "failed"
              /\ UNCHANGED suspended
         [] th[t].op = "remove" ->
              /\ Set(t, [th[t] EXCEPT !.pc = "done", !.ret = 0])
              /\ dev' = "removed"
              /\ UNCHANGED suspended
    /\ UNCHANGED <<lock, scan, buffer, registered>>
    /\ RegsUnchanged /\ TrigUnchanged

(* ------------------------------------------------------------------ *)
(* qmc5883_common_probe, qmc5883_init, qmc5883_common_remove           *)
(* ------------------------------------------------------------------ *)

\* devm_iio_device_alloc and iio_read_mount_matrix, either of which may
\* fail, then qmc5883_init: qmc5883_set_samp_freq(data, QMC5883_RATE_DEFAULT)
CallProbe(t) ==
    /\ th[t].pc = "idle"
    /\ dev = "unbound"
    /\ LET r == [IdleThread EXCEPT !.op = "probe"]
       IN  \/ \E e \in {-ENOMEM, -EINVAL} :
                /\ Set(t, [r EXCEPT !.pc = "done", !.ret = e])
                /\ dev' = "failed"
           \/ /\ Set(t, [r EXCEPT !.pc = "ss_lock", !.arg = QMC5883_RATE_DEFAULT])
              /\ dev' = "probing"
    /\ UNCHANGED <<lock, scan, buffer, registered, suspended>>
    /\ RegsUnchanged /\ TrigUnchanged

\* regmap_write(CONTROL_REG_2, 0x00), then qmc5883_set_mode(CONTINUOUS)
InitCtrl2_NoWrite(t) ==
    /\ th[t].pc = "init_ctrl2"
    /\ Set(t, [th[t] EXCEPT !.pc = "sm_read1",
                            !.arg = QMC5883_MODE_CONTINUOUS, !.ret = 0])
    /\ UNCHANGED <<lock, scan, ctrl1, ctrl2, lastRate, dev, buffer, registered,
                   suspended>>
    /\ TrigUnchanged

InitCtrl2(t) ==
    /\ th[t].pc = "init_ctrl2"
    /\ \/ \E e \in IoErrs :
            /\ Set(t, [th[t] EXCEPT !.pc = "done", !.ret = e])
            /\ dev' = "failed"
            /\ UNCHANGED ctrl2
       \/ /\ ctrl2' = 0
          /\ Set(t, [th[t] EXCEPT !.pc = "sm_read1",
                                  !.arg = QMC5883_MODE_CONTINUOUS, !.ret = 0])
          /\ UNCHANGED dev
    /\ UNCHANGED <<lock, scan, ctrl1, lastRate, buffer, registered, suspended>>
    /\ TrigUnchanged

\* iio_triggered_buffer_setup; on failure goto buffer_setup_err
PbBufferSetup(t) ==
    /\ th[t].pc = "pb_buffer_setup"
    /\ \/ /\ buffer' = TRUE
          /\ Set(t, [th[t] EXCEPT !.pc = "pb_register"])
       \/ /\ Set(t, [th[t] EXCEPT !.pc = "sm_read1", !.err = -ENOMEM,
                                  !.arg = QMC5883_MODE_STANDBY])
          /\ UNCHANGED buffer
    /\ UNCHANGED <<lock, scan, dev, registered, suspended>>
    /\ RegsUnchanged /\ TrigUnchanged

\* iio_device_register; on failure goto buffer_cleanup
PbRegister(t) ==
    /\ th[t].pc = "pb_register"
    /\ \/ /\ registered' = TRUE
          /\ dev' = "bound"
          /\ Set(t, [th[t] EXCEPT !.pc = "done", !.ret = 0])
       \/ /\ Set(t, [th[t] EXCEPT !.pc = "pb_cleanup", !.err = -ENOMEM])
          /\ UNCHANGED <<registered, dev>>
    /\ UNCHANGED <<lock, scan, buffer, suspended>>
    /\ RegsUnchanged /\ TrigUnchanged

\* buffer_cleanup: iio_triggered_buffer_cleanup, then buffer_setup_err:
\* qmc5883_set_mode(STANDBY)
PbCleanup(t) ==
    /\ th[t].pc = "pb_cleanup"
    /\ buffer' = FALSE
    /\ Set(t, [th[t] EXCEPT !.pc = "sm_read1", !.arg = QMC5883_MODE_STANDBY])
    /\ UNCHANGED <<lock, scan, dev, registered, suspended>>
    /\ RegsUnchanged /\ TrigUnchanged

\* no other thread is inside an accessor or the trigger handler
Quiesced(t) ==
    \A u \in Threads \ {t} : th[u].op \notin {"read_raw", "write_raw", "trigger"}

\* qmc5883_common_remove, called by the driver core with the device lock
\* held (no PM callback runs meanwhile): iio_device_unregister begins, and
\* from here on the host starts no accessor and dispatches no trigger event
CallRemove(t) ==
    /\ th[t].pc = "idle"
    /\ dev = "bound" /\ NoPmCall
    /\ registered' = FALSE
    /\ dev' = "removing"
    /\ Set(t, [IdleThread EXCEPT !.pc = "rv_unregister", !.op = "remove"])
    /\ UNCHANGED <<lock, scan, buffer, suspended>>
    /\ RegsUnchanged /\ TrigUnchanged

\* iio_device_unregister returns once the accessors and the trigger handler
\* that were running have returned
RvUnregister(t) ==
    /\ th[t].pc = "rv_unregister"
    /\ Quiesced(t)
    /\ Set(t, [th[t] EXCEPT !.pc = "rv_cleanup"])
    /\ UNCHANGED <<lock, scan>>
    /\ RegsUnchanged /\ HostUnchanged /\ TrigUnchanged

\* iio_triggered_buffer_cleanup, then qmc5883_set_mode(STANDBY)
RvCleanup_NoTeardown(t) ==
    /\ th[t].pc = "rv_cleanup"
    /\ Set(t, [th[t] EXCEPT !.pc = "sm_read1", !.arg = QMC5883_MODE_STANDBY])
    /\ UNCHANGED <<lock, scan, dev, buffer, registered, suspended>>
    /\ RegsUnchanged /\ TrigUnchanged

RvCleanup(t) ==
    /\ th[t].pc = "rv_cleanup"
    /\ buffer' = FALSE
    /\ Set(t, [th[t] EXCEPT !.pc = "sm_read1", !.arg = QMC5883_MODE_STANDBY])
    /\ UNCHANGED <<lock, scan, dev, registered, suspended>>
    /\ RegsUnchanged /\ TrigUnchanged

\* qmc5883_i2c_remove, the remove callback of qmc5883_driver: it logs and
\* returns 0; the driver is detached and nothing of the core is called
qmc5883_i2c_remove(t) ==
    /\ th[t].pc = "idle"
    /\ dev = "bound" /\ NoPmCall
    /\ dev' = "detached"
    /\ Set(t, [IdleThread EXCEPT !.pc = "done", !.op = "i2c_remove", !.ret = 0])
    /\ UNCHANGED <<lock, scan, buffer, registered, suspended>>
    /\ RegsUnchanged /\ TrigUnchanged

\* the caller takes the returned value and the thread is free for the next
\* call; with the handler's return the trigger event is over, unless the
\* host has dispatched the next event since the handler notified the trigger
Return(t) ==
    /\ th[t].pc = "done"
    /\ Set(t, IdleThread)
    /\ IF th[t].op = "trigger" /\ ~trigBusy
       THEN acks' = 0 /\ sink' = <<>>
       ELSE UNCHANGED <<acks, sink>>
    /\ UNCHANGED <<lock, scan, trigBusy>>
    /\ RegsUnchanged /\ HostUnchanged

(* ------------------------------------------------------------------ *)
(* Specifications                                                      *)
(* ------------------------------------------------------------------ *)

\* the entry points of the configuration and lifecycle side, with the
\* (mask, val, val2) a caller may pass to write_raw
ConfigCalls(t, masks, writes) ==
    \/ CallProbe(t)
    \/ CallRemove(t)
    \/ \E mask \in masks : CallReadConfig(t, mask)
    \/ CallReadOther(t)
    \/ \E w \in writes : CallWriteRaw(t, w[1], w[2][1], w[2][2])
    \/ CallSuspend(t)
    \/ CallResume(t)

\* the statements inside those calls
ConfigSteps(t) ==
    \/ InitCtrl2(t) \/ PbBufferSetup(t) \/ PbRegister(t) \/ PbCleanup(t)
    \/ RvUnregister(t) \/ RvCleanup(t)
    \/ RrRead(t)
    \/ SsLock(t) \/ SsUpdate(t) \/ SsUnlock(t)
    \/ SmRead1(t) \/ SmLock(t) \/ SmUpdate(t) \/ SmUnlock(t) \/ SmRead2(t)
    \/ Return(t)

\* the entry points of the acquisition pipeline, with the channels a caller
\* may read
MeasureCalls(t, idxs) ==
    \/ \E idx \in idxs : CallReadAxis(t, idx)
    \/ TriggerEvent(t)

\* the statements inside those calls
MeasureSteps(t) ==
    \/ RmLock(t) \/ RmWaitFailed(t) \/ RmBulkRead(t) \/ RmUnlock(t)
    \/ WmPoll(t) \/ WmExhaust(t)
    \/ ThLock(t) \/ ThWaitFailed(t) \/ ThBulkRead(t)
    \/ ThUnlock(t) \/ ThPush(t) \/ ThNotifyDone(t)

\* Spec: one caller at a time, every call runs to its return before the next
\* one starts; all entry points, all arguments, and both ways a device goes
\* away: qmc5883_common_remove and the remove callback of the i2c driver.
SeqCtrl1 == {0, 29, 254}

Init == InitCommon /\ ctrl1 \in SeqCtrl1

Next ==
    \/ ConfigCalls(1, ConfigMasks, WriteInputs)
    \/ ConfigSteps(1)
    \/ MeasureCalls(1, 0..2)
    \/ MeasureSteps(1)
    \/ qmc5883_i2c_remove(1)

Spec == Init /\ [][Next]_vars

\* SpecCfg: one caller at a time on the configuration and lifecycle side;
\* control register 1 holds any 8-bit value when the probe starts.
InitCfg == InitCommon /\ ctrl1 \in 0..255

NextCfg ==
    \/ ConfigCalls(1, ConfigMasks, WriteInputs)
    \/ ConfigSteps(1)

SpecCfg == InitCfg /\ [][NextCfg]_vars

\* SpecConc: NumThreads callers at once, all entry points, fewer arguments.
ConcCtrl1 == {29}
ConcWrites == { <<"SAMP_FREQ", <<100, 0>> >>, <<"SAMP_FREQ", <<0, 0>> >> }
ConcMasks == {"SAMP_FREQ"}

InitConc == InitCommon /\ ctrl1 \in ConcCtrl1

NextConc ==
    \E t \in Threads :
        \/ ConfigCalls(t, ConcMasks, ConcWrites)
        \/ ConfigSteps(t)
        \/ MeasureCalls(t, {0})
        \/ MeasureSteps(t)

SpecConc == InitConc /\ [][NextConc]_vars

\* SpecLive: one caller of the acquisition pipeline and one caller of the
\* configuration and lifecycle side, under the scheduling of the kernel:
\* a thread that can take its next step is eventually run (weak fairness
\* of the steps inside a call), and a thread sleeping in mutex_lock gets the
\* mutex handed over when it is released often enough (strong fairness of
\* the lock steps).  Whether a caller makes a call at all is left open.
\* The configuring caller probes the device (rate, range and mode written)
\* and then writes one sampling frequency again and again.
LiveWrite == <<100, 0>>

\* the statements inside the calls of the configuring caller
LiveConfigSteps(t) ==
    \/ InitCtrl2(t) \/ PbBufferSetup(t) \/ PbRegister(t) \/ PbCleanup(t)
    \/ SsLock(t) \/ SsUpdate(t) \/ SsUnlock(t)
    \/ SmRead1(t) \/ SmLock(t) \/ SmUpdate(t) \/ SmUnlock(t) \/ SmRead2(t)
    \/ Return(t)

NextLive ==
    \/ MeasureCalls(1, {0})
    \/ MeasureSteps(1)
    \/ Return(1)
    \/ CallProbe(2)
    \/ CallWriteRaw(2, "SAMP_FREQ", LiveWrite[1], LiveWrite[2])
    \/ LiveConfigSteps(2)

Fairness ==
    /\ WF_vars(MeasureSteps(1) \/ Return(1))
    /\ WF_vars(LiveConfigSteps(2))
    /\ SF_vars(RmLock(1)) /\ SF_vars(ThLock(1))
    /\ SF_vars(SsLock(2)) /\ SF_vars(SmLock(2))

SpecLive == InitConc /\ [][NextLive]_vars /\ Fairness

(* ------------------------------------------------------------------ *)
(* Properties                                                          *)
(* ------------------------------------------------------------------ *)

\* the wait of thread t has returned to its caller
WaitReturned(t) == th[t].pc = "wm_ret"

\* no poll of the wait of thread t saw the data-ready bit and none failed
NeverReady(t) == th[t].waitEnv \in {"none", "notready"}

\* C1: a wait whose polls never show the data-ready bit and never fail
\* returns the timeout error after exactly 150 reads of the status register,
\* and no wait reads the status register more than 150 times.
C1_TimeoutAfterExactly150Polls ==
    \A t \in Threads :
        /\ th[t].polls <= 150
        /\ (WaitReturned(t) /\ NeverReady(t))
              => (th[t].polls = 150 /\ th[t].ret = -EIO)

C1_Witness ==
    \E t \in Threads :
        /\ WaitReturned(t) /\ NeverReady(t)
        /\ th[t].polls = 150 /\ th[t].ret < 0

\* C2: a wait whose poll k is the first to show the data-ready bit returns
\* success after exactly k polls, for every k up to 150, and the trigger
\* handler whose wait and bulk read succeeded has handed one sample to the
\* buffers when it returns.
C2_ReadyOnPollKSucceeds ==
    \A t \in Threads :
        /\ (WaitReturned(t) /\ th[t].readyAt > 0)
              => (th[t].ret = 0 /\ th[t].polls = th[t].readyAt
                  /\ th[t].readyAt \in 1..150)
        /\ (th[t].op = "trigger" /\ th[t].pc = "done"
            /\ th[t].waitEnv = "ready" /\ th[t].bulkEnv = "ok")
              => Len(sink) = 1

C2_Witness ==
    \E t \in Threads :
        /\ th[t].op = "trigger" /\ WaitReturned(t)
        /\ th[t].readyAt = 150 /\ th[t].polls = 150 /\ th[t].ret = 0

\* C3 (as claimed): the value a wait returns when its 150 polls are used up
\* is an error that no failed poll transaction returns, and the value it
\* returns after a failed poll is that transaction's error.
C3_TimeoutDistinctFromIoError ==
    \A t \in Threads :
        WaitReturned(t) =>
            /\ NeverReady(t) => (th[t].ret < 0 /\ th[t].ret \notin IoErrs)
            /\ th[t].waitEnv = "fail" => th[t].ret \in IoErrs

\* the (val, val2) pairs of the sampling-rate table
SampFreqPairs == { qmc5883_regval_to_samp_freq[i] : i \in 0..3 }

\* C4 (as claimed): a successful read of the sampling frequency returns the
\* pair that the last successful write of the sampling frequency asked for.
C4_SampFreqRoundTrip ==
    \A t \in Threads :
        (/\ th[t].op = "read_raw" /\ th[t].mask = "SAMP_FREQ"
         /\ th[t].pc = "done" /\ th[t].ret = IIO_VAL_INT_PLUS_MICRO
         /\ lastRate >= 0)
            => <<th[t].val, th[t].val2>> = qmc5883_regval_to_samp_freq[lastRate]

\* thread t is in a write of the sampling frequency with a value that is not
\* in the table
InvalidFreqWrite(r) ==
    /\ r.op = "write_raw" /\ r.mask = "SAMP_FREQ"
    /\ <<r.val, r.val2>> \notin SampFreqPairs

\* C5: a write of a sampling frequency that is not an exact entry of the
\* table returns -EINVAL at once: the step that makes the call leaves both
\* control registers and the guard as they were, and the caller never holds
\* the guard.
C5_InvalidFreqRejected ==
    [][ \A t \in Threads :
           InvalidFreqWrite(th'[t]) =>
               /\ th'[t].pc = "done" /\ th'[t].ret = -EINVAL
               /\ lock' # t
               /\ (th'[t] # th[t]) =>
                      (ctrl1' = ctrl1 /\ ctrl2' = ctrl2 /\ lock' = lock) ]_vars

C5_Witness ==
    \E t \in Threads :
        /\ InvalidFreqWrite(th[t])
        /\ th[t].val = 100 /\ th[t].val2 = 500000
        /\ th[t].pc = "done" /\ th[t].ret = -EINVAL

\* C6: the successful register update of a suspend leaves the mode bits
\* (bits 0-1) at 0, that of a resume leaves them at 1, and neither changes
\* bits 2-7 of control register 1.
C6_SuspendResumeModeOnly ==
    [][ \A t \in Threads :
           (/\ th[t].op \in {"suspend", "resume"}
            /\ th[t].pc = "sm_update" /\ th'[t].pc = "sm_unlock"
            /\ th'[t].ret = 0)
              => /\ ctrl1' % 4 = (IF th[t].op = "suspend" THEN 0 ELSE 1)
                 /\ ctrl1' \div 4 = ctrl1 \div 4 ]_vars

C6_Witness ==
    \E t \in Threads :
        /\ th[t].op = "resume" /\ th[t].pc = "done" /\ th[t].ret = 0
        /\ ctrl1 % 4 = 1 /\ ctrl1 \div 4 = 63

\* thread t holds the guard for a sample read and has not yet done its bulk read
InMeasurement(r) == r.pc \in {"wm_poll", "wm_ret"}

\* C7: while one thread is between taking the guard for a sample read and
\* its bulk read, no other thread is polling, bulk-reading or updating
\* control register 1, and control register 1 does not change.
C7_MeasurementAtomic ==
    [][ \A t \in Threads :
           InMeasurement(th[t]) =>
               /\ \A u \in Threads \ {t} :
                     th[u].pc \notin {"wm_poll", "wm_ret", "rm_unlock", "th_unlock",
                                      "ss_update", "ss_unlock",
                                      "sm_update", "sm_unlock"}
               /\ InMeasurement(th'[t]) => ctrl1' = ctrl1 ]_vars

C7_Witness ==
    \E t \in Threads : \E u \in Threads \ {t} :
        /\ th[t].pc = "wm_poll" /\ th[t].polls >= 1
        /\ th[u].op = "write_raw" /\ th[u].pc = "ss_lock"

\* thread t is about to issue a register transaction
AboutToTransact(r) ==
    \/ r.pc = "wm_poll" /\ LoopTest(r.tries)
    \/ r.pc = "wm_ret" /\ r.ret >= 0
    \/ r.pc \in {"rr_read", "ss_update", "sm_read1", "sm_update", "sm_read2",
                 "init_ctrl2"}

\* C8 (as claimed): a thread that issues a register transaction from the
\* read and write accessors, the trigger handler, suspend, resume or remove
\* holds the guard.
C8_TransactionsUnderGuard ==
    \A t \in Threads :
        (th[t].op # "probe" /\ AboutToTransact(th[t])) => lock = t

\* the kind of register write a thread at this statement issues
WriteKind(pc) ==
    CASE pc \in {"ss_update", "sm_update"} -> "update_bits"
      [] pc = "init_ctrl2" -> "write"
      [] OTHER -> "none"

\* C9 (as claimed): a thread that is about to write mode, rate or the
\* default gain value holds the guard and the write is a masked update.
C9_ConfigWritesGuardedUpdates ==
    \A t \in Threads :
        WriteKind(th[t].pc) # "none" =>
            (lock = t /\ WriteKind(th[t].pc) = "update_bits")

\* the wait and the bulk read of the handler of thread t both succeeded
SampleRead(t) == th[t].waitEnv = "ready" /\ th[t].bulkEnv = "ok"

\* C10: a trigger handler that has returned has notified the trigger
\* exactly once, and has handed one sample to the buffers if its wait and
\* its bulk read both succeeded and none otherwise; a handler that has not
\* returned has not notified the trigger.
C10_TriggerAlwaysAcked ==
    \A t \in Threads :
        th[t].op = "trigger" =>
            IF th[t].pc = "done"
            THEN /\ acks = 1
                 /\ ~trigBusy
                 /\ Len(sink) = (IF SampleRead(t) THEN 1 ELSE 0)
            ELSE acks = 0 /\ trigBusy

C10_Witness ==
    \E t \in Threads :
        /\ th[t].op = "trigger" /\ th[t].pc = "done"
        /\ th[t].waitEnv = "ready" /\ th[t].bulkEnv = "fail"
        /\ acks = 1 /\ sink = <<>>

\* thread t is in qmc5883_common_remove at or past the call of qmc5883_set_mode
InRemoveSetMode(r) ==
    /\ r.op = "remove"
    /\ r.pc \in {"sm_read1", "sm_lock", "sm_update", "sm_unlock", "sm_read2", "done"}

\* C11: when qmc5883_common_remove reaches its standby write the device is
\* unregistered and the triggered buffer is torn down; from the start of the
\* unregistration on no trigger handler and no accessor starts, and from the
\* standby write on no thread is in a handler, a poll or a bulk read.
C11_TeardownBeforeStandby ==
    /\ [](\A t \in Threads :
             InRemoveSetMode(th[t]) =>
                 /\ ~registered /\ ~buffer
                 /\ \A u \in Threads \ {t} :
                       /\ th[u].op \notin {"trigger", "read_raw", "write_raw"}
                       /\ th[u].pc \notin {"wm_poll", "wm_ret", "th_lock", "rm_lock"})
    /\ [][ \A u \in Threads :
             (th'[u].op \in {"trigger", "read_raw", "write_raw"}
              /\ th[u].op = "none")
                 => dev \notin {"removing", "removed"} ]_vars

C11_Witness ==
    \E t \in Threads :
        /\ th[t].op = "remove" /\ th[t].pc = "sm_unlock" /\ th[t].ret = 0
        /\ ctrl1 % 4 = QMC5883_MODE_STANDBY
        /\ ~registered /\ ~buffer

\* C12 (as claimed): when the remove entry point of the driver has returned,
\* the device is unregistered, the triggered buffer is torn down and the
\* mode bits of control register 1 are the standby encoding.
C12_RemoveForcesStandby ==
    \A t \in Threads :
        (th[t].op \in {"remove", "i2c_remove"} /\ th[t].pc = "done")
            => /\ ~registered /\ ~buffer
               /\ ctrl1 % 4 = QMC5883_MODE_STANDBY

\* the probe of thread r has returned an error from qmc5883_init, from the
\* buffer setup or from the registration
ProbeFailedAfterSetup(r) ==
    /\ r.op = "probe" /\ r.pc = "done" /\ r.ret < 0
    /\ (r.ret \in IoErrs \/ r.err < 0)

\* C13 (as claimed): when the probe has returned an error after partial
\* setup, the mode bits are not continuous while no consumer is registered.
C13_UnwindNeverLeavesContinuous ==
    \A t \in Threads :
        ProbeFailedAfterSetup(th[t]) =>
            ~(ctrl1 % 4 = QMC5883_MODE_CONTINUOUS /\ ~registered)

\* C14 (as claimed): the table index read_raw uses for the sampling rate is
\* (reg & 0x0C) >> 2 and the one it uses for the full scale is
\* (reg & 0x30) >> 4, and each lies inside its table.
C14_IndexMaskedBeforeLookup ==
    \A t \in Threads :
        th[t].pc = "rr_read" =>
            /\ th[t].mask = "SAMP_FREQ" =>
                  /\ SampFreqIndex(ctrl1)
                        = ShiftRight(BitAnd(ctrl1, QMC5883_RATE_MASK),
                                     QMC5883_RATE_OFFSET)
                  /\ SampFreqIndex(ctrl1) < n_regval_to_samp_freq
            /\ th[t].mask = "SCALE" =>
                  /\ ScaleIndex(ctrl1)
                        = ShiftRight(BitAnd(ctrl1, QMC5883_RANGE_GAIN_MASK),
                                     QMC5883_RANGE_GAIN_OFFSET)
                  /\ ScaleIndex(ctrl1) < n_regval_to_full_scale

\* the rate bits of a control register 1 content
RateBits(reg) == (reg \div 4) % 4

C16_GuardEventuallyReleased ==
    /\ [](\A t \in Threads :
             WaitReturned(t) => (th[t].ret = 0 \/ th[t].ret = -EIO
                                 \/ th[t].ret \in IoErrs))
    /\ \A t \in Threads :
          (lock = t /\ th[t].op \in {"read_raw", "trigger"}) ~> (lock # t)
    /\ \A t \in Threads :
          (th[t].pc \in {"ss_lock", "sm_lock"})
              ~> (th[t].pc \in {"ss_update", "sm_update"})

C16_Witness ==
    \E t \in Threads : \E u \in Threads \ {t} :
        /\ lock = t /\ th[t].op = "trigger" /\ th[t].pc = "wm_poll"
        /\ th[t].polls = WaitTries /\ th[t].waitEnv = "notready"
        /\ th[u].op = "write_raw" /\ th[u].pc = "ss_lock"

\* qmc5883_init has returned 0 in the probe of this device
InitSucceeded ==
    \/ dev \in {"bound", "removing", "removed", "detached"}
    \/ \E t \in Threads :
          /\ th[t].op = "probe"
          /\ \/ th[t].pc \in {"pb_buffer_setup", "pb_register", "pb_cleanup"}
             \/ th[t].err < 0

\* C17: once qmc5883_init has succeeded the mode bits of control register 1
\* are standby or continuous in every state, whatever the register held
\* before the probe.
C17_ModeBitsStandbyOrContinuous ==
    InitSucceeded =>
        ctrl1 % 4 \in {QMC5883_MODE_STANDBY, QMC5883_MODE_CONTINUOUS}

C17_Witness ==
    /\ dev = "bound" /\ suspended
    /\ ctrl1 = 240

\* C18: every call of qmc5883_set_mode goes from its entry to the guard and
\* from the guard to the register update, whatever the mode bits are; the
\* update is made under the guard, leaves a register whose mode bits already
\* equal the target as it is, and applied again to its own result changes
\* nothing.
C18_SetModeIdempotent ==
    [][ \A t \in Threads :
           /\ (th[t].pc = "sm_read1" /\ th'[t] # th[t]) => th'[t].pc = "sm_lock"
           /\ (th[t].pc = "sm_lock" /\ th'[t] # th[t]) =>
                  (th'[t].pc = "sm_update" /\ lock' = t)
           /\ (th[t].pc = "sm_update" /\ th'[t] # th[t]) =>
                  /\ lock = t
                  /\ th'[t].ret = 0 =>
                        /\ ctrl1' % 4 = th[t].arg
                        /\ regmap_update_bits(ctrl1', QMC5883_MODE_MASK, th[t].arg)
                              = ctrl1'
                        /\ (ctrl1 % 4 = th[t].arg) => ctrl1' = ctrl1 ]_vars

C18_Witness ==
    \E t \in Threads :
        /\ th[t].op = "remove" /\ th[t].pc = "sm_unlock" /\ th[t].ret = 0
        /\ suspended
        /\ ctrl1 % 4 = QMC5883_MODE_STANDBY

\* C19: the register update of qmc5883_set_samp_freq is made under the
\* guard with an index of 0..3; when it succeeds bits 2-3 of control
\* register 1 equal the index and bits 0-1 and 4-7 are unchanged; when it
\* fails the register is unchanged; either way the guard is released and the
\* result of the update is what the function returns.
C19_SetSampFreqRateBitsOnly ==
    [][ \A t \in Threads :
           /\ (th[t].pc = "ss_update" /\ th'[t].pc = "ss_unlock") =>
                  /\ lock = t
                  /\ th[t].arg \in 0..3
                  /\ IF th'[t].ret = 0
                     THEN /\ RateBits(ctrl1') = th[t].arg
                          /\ ctrl1' % 4 = ctrl1 % 4
                          /\ ctrl1' \div 16 = ctrl1 \div 16
                     ELSE /\ th'[t].ret \in IoErrs
                          /\ ctrl1' = ctrl1
           /\ (th[t].pc = "ss_unlock" /\ th'[t].pc # "ss_unlock") =>
                  /\ lock' = NoOwner
                  /\ th'[t].ret = th[t].ret ]_vars

C19_Witness ==
    \E t \in Threads :
        /\ th[t].op = "write_raw" /\ th[t].pc = "ss_unlock" /\ th[t].ret = 0
        /\ th[t].arg = 3
        /\ ctrl1 = 253

\* thread r is in a write of a channel attribute other than the sampling
\* frequency
ReadOnlyWrite(r) == r.op = "write_raw" /\ r.mask # "SAMP_FREQ"

\* C20: write_raw for the scale, the oversampling ratio or any other mask
\* than the sampling frequency returns -EINVAL at once: the step that makes
\* the call leaves both control registers and the guard as they were, and
\* the caller never holds the guard.
C20_ReadOnlyChannelsRejected ==
    [][ \A t \in Threads :
           ReadOnlyWrite(th'[t]) =>
               /\ th'[t].pc = "done" /\ th'[t].ret = -EINVAL
               /\ lock' # t
               /\ (th'[t] # th[t]) =>
                      (ctrl1' = ctrl1 /\ ctrl2' = ctrl2 /\ lock' = lock) ]_vars

C20_Witness ==
    \E t \in Threads :
        /\ ReadOnlyWrite(th[t])
        /\ th[t].mask = "SCALE" /\ th[t].val = 8
        /\ th[t].pc = "done" /\ th[t].ret = -EINVAL

\* the 16-bit two's-complement value of data registers 2i (low byte) and
\* 2i+1 (high byte) of a bulk-read frame
AxisValue(frame, i) ==
    LET lo == frame[2 * i + 1]
        hi == frame[2 * i + 2]
        u  == hi * 256 + lo
    IN  IF u < 32768 THEN u ELSE u - 65536

\* C21: a successful read of channel i returns IIO_VAL_INT and the value
\* hi*256 + lo of data registers 2i and 2i+1 when that is below 32768 and
\* that value minus 65536 otherwise, always within -32768..32767.
C21_AxisDecode ==
    [][ \A t \in Threads :
           (/\ th[t].pc = "rm_unlock" /\ th'[t].pc = "done"
            /\ th[t].ret >= 0)
              => /\ th[t].arg \in 0..2
                 /\ th'[t].ret = IIO_VAL_INT
                 /\ th'[t].val = AxisValue(th[t].values, th[t].arg)
                 /\ th'[t].val \in -32768..32767 ]_vars

C21_Witness ==
    \E t \in Threads :
        /\ th[t].op = "read_raw" /\ th[t].mask = "RAW" /\ th[t].arg = 2
        /\ th[t].pc = "done" /\ th[t].ret = IIO_VAL_INT
        /\ th[t].val = -32768

\* the handler of thread r has done its bulk read and not yet its push
BetweenReadAndPush(r) ==
    /\ r.op = "trigger" /\ r.bulkEnv = "ok"
    /\ r.pc \in {"th_unlock", "th_push"}

\* C22: from the bulk read of a trigger handler to its push the scan buffer
\* holds the frame that this bulk read stored, whatever the other callers
\* do meanwhile, and the sample the handler has pushed is that frame.
C22_PushedSampleIsOwnRead ==
    \A t \in Threads :
        /\ BetweenReadAndPush(th[t]) => scan = th[t].values
        /\ (th[t].op = "trigger" /\ th[t].pc = "th_done" /\ SampleRead(t))
              => sink = <<th[t].values>>

C22_Witness ==
    \E t \in Threads : \E u \in Threads \ {t} :
        /\ th[t].op = "trigger" /\ th[t].pc = "th_push"
        /\ scan = th[t].values
        /\ th[u].op = "read_raw" /\ th[u].pc = "rm_unlock"
        /\ th[u].bulkEnv = "ok" /\ th[u].values # th[t].values

====
